---- MODULE Spec2Model ----
(***************************************************************************)
(* A model of the Outlander copilot's evaluation pipelines:                *)
(*   - run_batch_evaluation (prompt_flows/outlander_copilot)               *)
(*   - evaluate_metrics and calculate_score (prompt_flows/outlander_       *)
(*     evaluation), the Judge and the Scorer                               *)
(*   - main of scripts/run_copilot_and_evaluate.py, the judged batch run   *)
(*   - search_products, generate_response and test_flow, the query         *)
(*     pipeline, and run_interactive_test                                  *)
(*   - aggregate_results and test_evaluation                               *)
(*                                                                         *)
(* Texts are sequences of fragments (an f-string is the concatenation of   *)
(* its literal parts and its substituted values).  Scores are integers in  *)
(* hundredths: 3.0 is 300, 4.87 is 487.  The external services (search,    *)
(* generation, judge model, flow runner) are nondeterministic choices      *)
(* over their outcomes.                                                    *)
(***************************************************************************)
EXTENDS Integers, Sequences, FiniteSets, TLC

VARIABLES
    test_cases,   \* the loaded dataset: a sequence of rows
    calls,        \* the outcome of the external services for each item so far
    i,            \* enumerate index of the item being processed (1-based)
    results,      \* the per-item records, in the order they were appended
    successful,   \* run_batch_evaluation: counter of items that succeeded
    failed,       \* run_batch_evaluation: counter of items that raised
    sleeps,       \* run_batch_evaluation: number of time.sleep(2) calls made
    report,       \* the files written by json.dump, in order
    judge_in,     \* the Judge's arguments and what its services will do
    evaluation,   \* what evaluate_metrics returned
    overall,      \* what calculate_score returned
    main_prediction, \* main: the copilot's answer for the current item
    total_score,  \* main: running sum of the overall scores
    search_in,    \* search_products: the query and what its services will do
    contexts,     \* search_products: the contexts returned by the calls so far
    flow_in,      \* test_flow: the question and the chat history of the call
    trace,        \* test_flow: the service invocations made, in order
    flow_out,     \* test_flow: what the call returned
    verdicts,     \* the pass verdict each component derived from a score
    agg_in,       \* aggregate_results: the list of scores it is given
    agg_out,      \* aggregate_results: what it returned
    pc            \* position of the running program

batchVars == <<test_cases, calls, i, results, successful, failed, sleeps, report>>
judgeVars == <<judge_in, evaluation, overall>>
mainVars == <<main_prediction, total_score>>
searchVars == <<search_in, contexts>>
flowVars == <<flow_in, trace, flow_out>>
verdictVars == <<verdicts>>
aggregateVars == <<agg_in, agg_out>>
vars == <<batchVars, judgeVars, mainVars, searchVars, flowVars, verdictVars,
         aggregateVars, pc>>

\* the variables each program leaves alone
notBatch == <<judgeVars, mainVars, searchVars, flowVars, verdictVars, aggregateVars>>
notJudge == <<batchVars, mainVars, searchVars, flowVars, verdictVars, aggregateVars>>
notMain == <<successful, failed, sleeps, judgeVars, searchVars, flowVars, verdictVars, aggregateVars>>
notSearch == <<batchVars, judgeVars, mainVars, flowVars, verdictVars, aggregateVars>>
notFlow == <<batchVars, judgeVars, mainVars, searchVars, verdictVars, aggregateVars>>
notAggregate == <<batchVars, judgeVars, mainVars, searchVars, flowVars, verdictVars>>
notVerdict == <<batchVars, mainVars, searchVars, flowVars, aggregateVars>>

\* a variable that holds nothing yet
NoValue == [none |-> TRUE]

\* the variables of a program that is not running
BatchIdle ==
    /\ test_cases = <<>>
    /\ calls = <<>>
    /\ i = 1
    /\ results = <<>>
    /\ successful = 0
    /\ failed = 0
    /\ sleeps = 0
    /\ report = <<>>
JudgeIdle == judge_in = NoValue /\ evaluation = NoValue /\ overall = NoValue
MainIdle == main_prediction = NoValue /\ total_score = 0
SearchIdle == search_in = NoValue /\ contexts = <<>>
FlowIdle == flow_in = NoValue /\ trace = <<>> /\ flow_out = NoValue
VerdictIdle == verdicts = NoValue
AggregateIdle == agg_in = NoValue /\ agg_out = NoValue

----------------------------------------------------------------------------
(* Bounds of the model *)

\* longest dataset explored
MaxItems == 3

\* the rows a dataset line can hold ({"chat_input": ..., "truth": ...})
Rows == { [chat_input |-> "q1", truth |-> "t1"],
          [chat_input |-> "q2", truth |-> "t2"] }

\* every dataset of at most n rows
Datasets(n) == UNION { [1..k -> Rows] : k \in 0..n }

----------------------------------------------------------------------------
(* Rounding.  RoundHalfEven(n, d) is n/d rounded to the nearest integer,   *)
(* ties to the even neighbour, as Python's round() and format() do on an   *)
(* exactly representable value.  d > 0.  The mean of five values given in  *)
(* hundredths never falls on a tie, and the sums of the judged batch run   *)
(* are sums of multiples of 0.5, which binary floats hold exactly; on      *)
(* these domains the operator agrees with CPython's float arithmetic.      *)

RoundHalfEven(n, d) ==
    LET q == n \div d
        r == n % d
    IN  IF 2 * r < d THEN q
        ELSE IF 2 * r > d THEN q + 1
        ELSE IF q % 2 = 0 THEN q ELSE q + 1

----------------------------------------------------------------------------
(* The Query Pipeline, test_flow: search_products, then generate_response. *)

\* top of the search request, and the cut of a document's content
TopK == 3
ContentCap == 800

\* a text of n characters of document content
Chars(n) == [k \in 1..n |-> "c"]

\* a field of a search result: the key is missing, its value is None, or
\* its value is a text
Missing == [k |-> "missing", t |-> <<>>]
None == [k |-> "none", t |-> <<>>]
Field(t) == [k |-> "text", t |-> t]

\* the documents an index can rank for a query
DocFull ==
    [title |-> Field(<<"TrailWalker Hiking Shoes">>), content |-> Field(Chars(ContentCap + 1)),
     category |-> Field(<<"Footwear">>), price |-> Field(<<"89.95">>)]
DocBare ==
    [title |-> None, content |-> Field(Chars(2)), category |-> Missing, price |-> None]
DocUntitled ==
    [title |-> Missing, content |-> Missing, category |-> Field(<<>>), price |-> Missing]
DocNoContent ==
    [title |-> Field(<<"SkyView Tent">>), content |-> None,
     category |-> Field(<<"Tents">>), price |-> Missing]
DocShort ==
    [title |-> Field(<<"title">>), content |-> Field(Chars(2)),
     category |-> Missing, price |-> Missing]

\* str(i) of a section number
Ordinal(k) == <<"1", "2", "3", "4", "5", "6", "7", "8", "9">>[k]

\* result.get(key, default)
Get(result, key, default) == IF result[key].k = "missing" THEN default ELSE result[key]

\* a value inside an f-string
Show(v) == IF v.k = "none" THEN <<"None">> ELSE v.t

\* the search request without its top: every ranked document comes back
SearchResultsUnbounded(s) == s.docs

\* the search request of a client that resumes after the documents the
\* earlier calls returned
SearchResultsResumed(s) ==
    SubSeq(s.docs, Len(contexts) * TopK + 1,
           IF Len(s.docs) < (Len(contexts) + 1) * TopK THEN Len(s.docs)
           ELSE (Len(contexts) + 1) * TopK)

\* search_client.search(..., top=3): the first top ranked documents
SearchResults(s) == SubSeq(s.docs, 1, IF Len(s.docs) < TopK THEN Len(s.docs) ELSE TopK)

\* the body of the for loop: the section of result number k, or the
\* TypeError of slicing a content that is None
ProductInfo(k, result) ==
    LET title    == Get(result, "title", Field(<<"Unknown Product">>))
        content  == Get(result, "content", Field(<<>>))
        category == Get(result, "category", Field(<<>>))
        price    == Get(result, "price", Field(<<>>))
    IN  IF content.k = "none"
        THEN [raised |-> TRUE, error |-> "TypeError"]
        ELSE [raised |-> FALSE,
              value  |->
                 <<"## Product ", Ordinal(k), ": ">> \o Show(title) \o <<"\n">>
                 \o (IF category.t # <<>> THEN <<"**Category:** ">> \o category.t \o <<"\n">>
                     ELSE <<>>)
                 \o (IF price.t # <<>> THEN <<"**Price:** ">> \o price.t \o <<"\n">>
                     ELSE <<>>)
                 \o <<"\n">>
                 \o SubSeq(content.t, 1,
                           IF Len(content.t) < ContentCap THEN Len(content.t) ELSE ContentCap)
                 \o <<"\n">>]

\* the context list of the results from number k on, or the first exception
RECURSIVE FormatResults(_, _)
FormatResults(rs, k) ==
    IF k > Len(rs) THEN [raised |-> FALSE, value |-> <<>>]
    ELSE LET info == ProductInfo(k, rs[k])
             rest == FormatResults(rs, k + 1)
         IN  IF info.raised THEN info
             ELSE IF rest.raised THEN rest
             ELSE [raised |-> FALSE, value |-> <<info.value>> \o rest.value]

\* "\n".join(parts)
RECURSIVE Join(_)
Join(parts) ==
    IF parts = <<>> THEN <<>>
    ELSE IF Len(parts) = 1 THEN parts[1]
    ELSE parts[1] \o <<"\n">> \o Join(Tail(parts))

\* the try body of search_products: the context, or the exception raised
\* by the clients' construction, the embedding call, the search call or
\* the formatting.  s.fail names the service step that fails, if any.
SearchBody(query, s) ==
    CASE s.fail = "config"    -> [raised |-> TRUE, error |-> "invalid credential"]
      [] s.fail = "embedding" -> [raised |-> TRUE, error |-> "embedding unavailable"]
      [] s.fail = "search"    -> [raised |-> TRUE, error |-> "search unavailable"]
      [] OTHER ->
           LET context == FormatResults(SearchResults(s), 1)
           IN  IF context.raised THEN context
               ELSE IF context.value = <<>>
               THEN [raised |-> FALSE, value |-> <<"No relevant product information found.">>]
               ELSE [raised |-> FALSE, value |-> Join(context.value)]

\* search_products whose try statement starts after the clients are built
search_productsConfigUncaught(query, s) ==
    LET body == SearchBody(query, s)
    IN  IF body.raised /\ s.fail = "config" THEN body
        ELSE IF body.raised
        THEN [raised |-> FALSE, value |-> <<"Error searching products: ", body.error>>]
        ELSE body

\* search_products without the test of an empty context list
search_productsNoSentinel(query, s) ==
    LET body == SearchBody(query, s)
    IN  IF body.raised
        THEN [raised |-> FALSE, value |-> <<"Error searching products: ", body.error>>]
        ELSE IF SearchResults(s) = <<>> THEN [raised |-> FALSE, value |-> <<>>]
        ELSE body

\* search_products that reports a failure as no result
search_productsFailureAsEmpty(query, s) ==
    LET body == SearchBody(query, s)
    IN  IF body.raised
        THEN [raised |-> FALSE, value |-> <<"No relevant product information found.">>]
        ELSE body

\* search_products: every exception of the body becomes an error text
search_products(query, s) ==
    LET body == SearchBody(query, s)
    IN  IF body.raised
        THEN [raised |-> FALSE, value |-> <<"Error searching products: ", body.error>>]
        ELSE body

\* outcomes of the search service and of the generation service for one
\* call of the query pipeline: results, no result, a failure
SearchOutcomes ==
    { [fail |-> "none", docs |-> <<DocShort>>],
      [fail |-> "none", docs |-> <<>>],
      [fail |-> "search", docs |-> <<>>] }
GenOutcomes == {"answer", "raise"}
FlowOutcomes == [search : SearchOutcomes, gen : GenOutcomes]

\* a chat message
Message(role, content) == [role |-> role, content |-> content]

\* the system message: the persona followed by the retrieved context
SystemMessage(context) == Message("system", <<"persona">> \o context)

\* the messages of a Responder that leaves the history out
MessagesWithoutHistory(question, context, chat_history) ==
    <<SystemMessage(context), Message("user", <<question>>)>>

\* the messages generate_response sends: the system message, the history
\* (None and the empty list add nothing), the question
Messages(question, context, chat_history) ==
    <<SystemMessage(context)>> \o chat_history \o <<Message("user", <<question>>)>>

\* generate_response: the generation call's exception is not caught
generate_response(question, context, g) ==
    IF g = "raise"
    THEN [raised |-> TRUE, error |-> "generation unavailable"]
    ELSE [raised |-> FALSE, value |-> <<"answer to ", question>>]

\* test_flow: the record {question, context, answer}, or the exception
test_flow(question, o) ==
    LET context == search_products(question, o.search)
    IN  IF context.raised THEN context
        ELSE LET answer == generate_response(question, context.value, o.gen)
             IN  IF answer.raised
                 THEN answer
                 ELSE [raised |-> FALSE,
                       value  |-> [question |-> question,
                                   context  |-> context.value,
                                   answer   |-> answer.value]]

----------------------------------------------------------------------------
(* run_batch_evaluation                                                    *)

BatchInit ==
    /\ test_cases \in Datasets(MaxItems)
    /\ calls = <<>>
    /\ i = 1
    /\ results = <<>>
    /\ successful = 0
    /\ failed = 0
    /\ sleeps = 0
    /\ report = <<>>
    /\ judge_in = NoValue
    /\ evaluation = NoValue
    /\ overall = NoValue
    /\ main_prediction = NoValue
    /\ total_score = 0
    /\ SearchIdle /\ FlowIdle /\ VerdictIdle /\ AggregateIdle
    /\ pc = "item"

\* a loop that pauses after every item, the last one included
AfterItemAlwaysPause == "pause"

\* where the loop goes after item i: the pause, unless i is the last item
AfterItem == IF i < Len(test_cases) THEN "pause" ELSE "next"

\* BatchItemSuccess that puts the new record in front of the earlier ones
BatchItemSuccessPrepends ==
    /\ pc = "item"
    /\ i <= Len(test_cases)
    /\ \E o \in FlowOutcomes :
         LET question == test_cases[i].chat_input
             expected == test_cases[i].truth
             result   == test_flow(question, o)
         IN  /\ ~result.raised
             /\ calls' = Append(calls, o)
             /\ results' =
                   <<[test_number       |-> i,
                      question          |-> question,
                      expected_answer   |-> expected,
                      actual_answer     |-> result.value.answer,
                      context_retrieved |-> result.value.context,
                      status            |-> "success"]>> \o results
    /\ successful' = successful + 1
    /\ pc' = AfterItem
    /\ UNCHANGED <<test_cases, i, failed, sleeps, report>>
    /\ UNCHANGED notBatch

\* the try body: test_flow returned
BatchItemSuccess ==
    /\ pc = "item"
    /\ i <= Len(test_cases)
    /\ \E o \in FlowOutcomes :
         LET question == test_cases[i].chat_input
             expected == test_cases[i].truth
             result   == test_flow(question, o)
         IN  /\ ~result.raised
             /\ calls' = Append(calls, o)
             /\ results' = Append(results,
                   [test_number       |-> i,
                    question          |-> question,
                    expected_answer   |-> expected,
                    actual_answer     |-> result.value.answer,
                    context_retrieved |-> result.value.context,
                    status            |-> "success"])
    /\ successful' = successful + 1
    /\ pc' = AfterItem
    /\ UNCHANGED <<test_cases, i, failed, sleeps, report>>
    /\ UNCHANGED notBatch

\* BatchItemError without the except clause: the exception leaves the loop
BatchItemErrorPropagates ==
    /\ pc = "item"
    /\ i <= Len(test_cases)
    /\ \E o \in FlowOutcomes :
         /\ test_flow(test_cases[i].chat_input, o).raised
         /\ calls' = Append(calls, o)
    /\ pc' = "raised"
    /\ UNCHANGED <<test_cases, i, results, successful, failed, sleeps, report>>
    /\ UNCHANGED notBatch

\* BatchItemError that counts the failed item as a success
BatchItemErrorMiscounted ==
    /\ pc = "item"
    /\ i <= Len(test_cases)
    /\ \E o \in FlowOutcomes :
         LET result == test_flow(test_cases[i].chat_input, o)
         IN  /\ result.raised
             /\ calls' = Append(calls, o)
             /\ results' = Append(results,
                   [test_number       |-> i,
                    question          |-> test_cases[i].chat_input,
                    expected_answer   |-> test_cases[i].truth,
                    actual_answer     |-> <<"ERROR: ", result.error>>,
                    context_retrieved |-> <<>>,
                    status            |-> "error"])
    /\ successful' = successful + 1
    /\ pc' = AfterItem
    /\ UNCHANGED <<test_cases, i, failed, sleeps, report>>
    /\ UNCHANGED notBatch

\* BatchItemError that keeps no record of the failed item
BatchItemErrorUnrecorded ==
    /\ pc = "item"
    /\ i <= Len(test_cases)
    /\ \E o \in FlowOutcomes :
         /\ test_flow(test_cases[i].chat_input, o).raised
         /\ calls' = Append(calls, o)
    /\ failed' = failed + 1
    /\ pc' = AfterItem
    /\ UNCHANGED <<test_cases, i, results, successful, sleeps, report>>
    /\ UNCHANGED notBatch

\* the except branch: test_flow raised
BatchItemError ==
    /\ pc = "item"
    /\ i <= Len(test_cases)
    /\ \E o \in FlowOutcomes :
         LET question == test_cases[i].chat_input
             expected == test_cases[i].truth
             result   == test_flow(question, o)
         IN  /\ result.raised
             /\ calls' = Append(calls, o)
             /\ results' = Append(results,
                   [test_number       |-> i,
                    question          |-> question,
                    expected_answer   |-> expected,
                    actual_answer     |-> <<"ERROR: ", result.error>>,
                    context_retrieved |-> <<>>,
                    status            |-> "error"])
    /\ failed' = failed + 1
    /\ pc' = AfterItem
    /\ UNCHANGED <<test_cases, i, successful, sleeps, report>>
    /\ UNCHANGED notBatch

\* time.sleep(2) between two items
BatchPause ==
    /\ pc = "pause"
    /\ sleeps' = sleeps + 1
    /\ pc' = "next"
    /\ UNCHANGED <<test_cases, calls, i, results, successful, failed, report>>
    /\ UNCHANGED notBatch

\* the for statement takes the next row
BatchNextItem ==
    /\ pc = "next"
    /\ i' = i + 1
    /\ pc' = "item"
    /\ UNCHANGED <<test_cases, calls, results, successful, failed, sleeps, report>>
    /\ UNCHANGED notBatch

\* the for statement is exhausted
BatchLoopEnd ==
    /\ pc = "item"
    /\ i > Len(test_cases)
    /\ pc' = "save"
    /\ UNCHANGED <<test_cases, calls, i, results, successful, failed, sleeps, report>>
    /\ UNCHANGED notBatch

\* success_rate in tenths of a percent, as "{:.1f}%" prints it
SuccessRate(s, n) == RoundHalfEven(s * 1000, n)

\* the summary is built and dumped
BatchSave ==
    /\ pc = "save"
    /\ Len(test_cases) > 0
    /\ report' = Append(report,
          [total_questions |-> Len(test_cases),
           successful      |-> successful,
           failed          |-> failed,
           success_rate    |-> SuccessRate(successful, Len(test_cases)),
           results         |-> results])
    /\ pc' = "done"
    /\ UNCHANGED <<test_cases, calls, i, results, successful, failed, sleeps>>
    /\ UNCHANGED notBatch

\* successful/len(test_cases) with an empty dataset: ZeroDivisionError
BatchSaveRaises ==
    /\ pc = "save"
    /\ Len(test_cases) = 0
    /\ pc' = "raised"
    /\ UNCHANGED <<test_cases, calls, i, results, successful, failed, sleeps, report>>
    /\ UNCHANGED notBatch

BatchNext ==
    \/ BatchItemSuccess
    \/ BatchItemError
    \/ BatchPause
    \/ BatchNextItem
    \/ BatchLoopEnd
    \/ BatchSave
    \/ BatchSaveRaises

SpecBatch == BatchInit /\ [][BatchNext]_vars

----------------------------------------------------------------------------
(* Properties of run_batch_evaluation *)

\* whether the query pipeline raised for the k-th item processed
Raised(k) == test_flow(test_cases[k].chat_input, calls[k]).raised

\* the items processed so far whose query pipeline raised
RaisedItems == { k \in 1..Len(calls) : Raised(k) }

\* the for loop has been left
LoopEnded == pc \in {"save", "done", "raised"}

\* C1: an item whose test_flow raises never aborts the run: while rows
\* remain the loop is still running, whatever raised before, and the loop
\* ends with exactly one record per dataset row, the k-th for the k-th row.
C1_FailureNeverAborts ==
    /\ Len(results) < Len(test_cases) => pc \in {"item", "pause", "next"}
    /\ Len(results) = Len(calls)
    /\ LoopEnded =>
          /\ Len(results) = Len(test_cases)
          /\ \A k \in 1..Len(test_cases) :
                /\ results[k].test_number = k
                /\ results[k].question = test_cases[k].chat_input
    /\ pc = "raised" => Len(test_cases) = 0

\* C1 witness: a finished run of three items whose first and last raised
C1_Witness ==
    /\ pc = "done"
    /\ Len(test_cases) = 3
    /\ RaisedItems = {1, 3}
    /\ Len(results) = 3

\* C2: successful + failed is the number of items processed so far, failed
\* is the number of those that raised and successful the number that did
\* not; the written summary has total = N, failed = M, successful = N - M.
C2_CountersPartition ==
    /\ successful + failed = Len(results)
    /\ failed = Cardinality(RaisedItems)
    /\ successful = Len(calls) - Cardinality(RaisedItems)
    /\ failed = Cardinality({ k \in 1..Len(results) : results[k].status = "error" })
    /\ pc = "done" =>
          /\ Len(report) = 1
          /\ report[1].total_questions = Len(test_cases)
          /\ report[1].failed = Cardinality(RaisedItems)
          /\ report[1].successful = Len(test_cases) - Cardinality(RaisedItems)

\* C2 witness: a written summary of three items of which two raised
C2_Witness ==
    /\ pc = "done"
    /\ Len(test_cases) = 3
    /\ Cardinality(RaisedItems) = 2
    /\ report[1].failed = 2
    /\ report[1].successful = 1

----------------------------------------------------------------------------
(* JSON values and Python conversions                                      *)

\* a JSON number (hundredths), a JSON string (a text) and JSON null
Num(n) == [type |-> "number", n |-> n, s |-> <<>>]
Str(t) == [type |-> "string", n |-> 0, s |-> t]
Null == [type |-> "null", n |-> 0, s |-> <<>>]

\* d[k] = v on a dict: the key is added, or its value replaced
DictSet(d, k, v) == [x \in DOMAIN d \cup {k} |-> IF x = k THEN v ELSE d[x]]

\* json.dumps of a dict with string keys, and json.loads of that text
Dumps(d) == [json |-> d]
Loads(t) == t.json

\* float(x): the number's value; a string that is no number and None raise
Float(v) ==
    IF v.type = "number"
    THEN [raised |-> FALSE, value |-> v.n]
    ELSE [raised |-> TRUE,
          error |-> IF v.type = "null" THEN "TypeError" ELSE "ValueError"]

\* str(x) of a float with at most two decimals: sign, whole part, hundredths
FloatStr(n) ==
    LET a == IF n < 0 THEN 0 - n ELSE n
    IN  [sign |-> IF n < 0 THEN "-" ELSE "", whole |-> a \div 100, frac |-> a % 100]

\* float(s) of such a text
ParseFloat(t) ==
    LET a == t.whole * 100 + t.frac
    IN  IF t.sign = "-" THEN 0 - a ELSE a

\* sum of the numbers of a sequence
RECURSIVE Sum(_)
Sum(q) == IF q = <<>> THEN 0 ELSE Head(q) + Sum(Tail(q))

----------------------------------------------------------------------------
(* The Judge, evaluate_metrics                                             *)

\* the five dimensions, in the order of required_fields and of metrics
required_fields == <<"relevance", "accuracy", "completeness", "groundedness", "fluency">>
Fields == { required_fields[k] : k \in 1..Len(required_fields) }

\* the score a missing field gets, 3.0
DefaultScore == 300

\* prediction[:200] is kept as metadata
PredictionCap == 200

\* a text of n characters
Text(n) == [k \in 1..n |-> "p"]

\* prediction[:200] + "..." if len(prediction) > 200 else prediction
Truncated(prediction) ==
    IF Len(prediction) > PredictionCap
    THEN SubSeq(prediction, 1, PredictionCap) \o <<".", ".", ".">>
    ELSE prediction

\* default_result without its error key
default_resultNoError(question, prediction, cause) ==
    [k \in Fields \cup {"reasoning", "question", "prediction"} |->
        CASE k \in Fields     -> Num(DefaultScore)
          [] k = "reasoning"  -> Str(<<"Evaluation failed: ", cause>>)
          [] k = "question"   -> Str(question)
          [] OTHER            -> Str(Truncated(prediction))]

\* default_result with every dimension at the pass threshold
default_resultAtThreshold(question, prediction, cause) ==
    [k \in Fields \cup {"reasoning", "error", "question", "prediction"} |->
        CASE k \in Fields     -> Num(350)
          [] k = "reasoning"  -> Str(<<"Evaluation failed: ", cause>>)
          [] k = "error"      -> Str(<<cause>>)
          [] k = "question"   -> Str(question)
          [] OTHER            -> Str(Truncated(prediction))]

\* the except branch's result for the exception whose str() is cause
default_result(question, prediction, cause) ==
    [k \in Fields \cup {"reasoning", "error", "question", "prediction"} |->
        CASE k \in Fields     -> Num(DefaultScore)
          [] k = "reasoning"  -> Str(<<"Evaluation failed: ", cause>>)
          [] k = "error"      -> Str(<<cause>>)
          [] k = "question"   -> Str(question)
          [] OTHER            -> Str(Truncated(prediction))]

\* FillMissing with its test inverted: "if field in evaluation"
RECURSIVE FillMissingInverted(_, _)
FillMissingInverted(d, k) ==
    IF k > Len(required_fields) THEN d
    ELSE FillMissingInverted(IF required_fields[k] \in DOMAIN d
                             THEN DictSet(d, required_fields[k], Num(DefaultScore))
                             ELSE d,
                             k + 1)

\* the loop over required_fields: a missing field is set to 3.0
RECURSIVE FillMissing(_, _)
FillMissing(d, k) ==
    IF k > Len(required_fields) THEN d
    ELSE FillMissing(IF required_fields[k] \notin DOMAIN d
                     THEN DictSet(d, required_fields[k], Num(DefaultScore))
                     ELSE d,
                     k + 1)

\* evaluate_metrics that treats a missing required field as a failure and
\* returns the default result for it
evaluate_metricsDefaultsOnMissing(question, prediction, configured, reply) ==
    IF ~configured
    THEN [raised |-> TRUE, error |-> "missing credentials"]
    ELSE [raised |-> FALSE,
          value  |-> Dumps(
             CASE reply.kind = "raise"   -> default_result(question, prediction, "service error")
               [] reply.kind = "invalid" -> default_result(question, prediction, "JSONDecodeError")
               [] reply.kind = "nonmap"  -> default_result(question, prediction, "TypeError")
               [] ~(Fields \subseteq DOMAIN reply.object) ->
                    default_result(question, prediction, "missing field")
               [] OTHER ->
                    DictSet(DictSet(reply.object, "question", Str(question)),
                            "prediction", Str(Truncated(prediction))))]

\* evaluate_metrics.  configured: the client's settings are in the
\* environment; reply: what the chat completion call does.  The client is
\* built before the try statement, so its exception is not caught.
evaluate_metrics(question, prediction, configured, reply) ==
    IF ~configured
    THEN [raised |-> TRUE, error |-> "missing credentials"]
    ELSE [raised |-> FALSE,
          value  |-> Dumps(
             CASE reply.kind = "raise"   -> default_result(question, prediction, "service error")
               [] reply.kind = "invalid" -> default_result(question, prediction, "JSONDecodeError")
               [] reply.kind = "nonmap"  -> default_result(question, prediction, "TypeError")
               [] OTHER ->
                    DictSet(DictSet(FillMissing(reply.object, 1),
                                    "question", Str(question)),
                            "prediction", Str(Truncated(prediction))))]

----------------------------------------------------------------------------
(* The Scorer, calculate_score                                             *)

metrics == required_fields

\* the scores list: float() of each metric present, in order; or the
\* exception of the first float() that raises
RECURSIVE Scores(_, _)
Scores(d, k) ==
    IF k > Len(metrics) THEN [raised |-> FALSE, value |-> <<>>]
    ELSE IF metrics[k] \notin DOMAIN d THEN Scores(d, k + 1)
    ELSE LET f == Float(d[metrics[k]])
             rest == Scores(d, k + 1)
         IN  IF f.raised THEN f
             ELSE IF rest.raised THEN rest
             ELSE [raised |-> FALSE, value |-> <<f.value>> \o rest.value]

\* calculate_score that divides by the number of metrics, not of scores
calculate_scoreDividesByAll(evaluation_result) ==
    LET result_dict == Loads(evaluation_result)
        scores == Scores(result_dict, 1)
    IN  IF scores.raised THEN scores
        ELSE [raised |-> FALSE,
              value  |-> FloatStr(RoundHalfEven(Sum(scores.value), Len(metrics)))]

\* calculate_score: str of the mean rounded to 2 decimals, 0.0 without scores
calculate_score(evaluation_result) ==
    LET result_dict == Loads(evaluation_result)
        scores == Scores(result_dict, 1)
    IN  IF scores.raised THEN scores
        ELSE [raised |-> FALSE,
              value  |-> FloatStr(IF scores.value # <<>>
                                  THEN RoundHalfEven(Sum(scores.value), Len(scores.value))
                                  ELSE 0)]

----------------------------------------------------------------------------
(* The evaluation flow on one input: evaluate_metrics, then calculate_score *)

\* what the judge model can put in a dimension: in range, out of range, null
FieldValues == { Num(0 - 100), Num(300), Num(433), Num(1000), Null }

\* the other keys the judge model may return
ExtraObjects ==
    { <<>>,
      [k \in {"reasoning"} |-> Str(<<"model reasoning">>)],
      [k \in {"reasoning", "error"} |-> Str(<<"model text">>)] }

\* two dicts with disjoint keys, as one
Merge(f, g) == [k \in DOMAIN f \cup DOMAIN g |-> IF k \in DOMAIN f THEN f[k] ELSE g[k]]

\* the JSON objects the judge model can return: any subset of the five
\* dimensions, each with any value, and the extra keys
JudgeObjects ==
    { Merge(f, e) : f \in UNION { [S -> FieldValues] : S \in SUBSET Fields },
                    e \in ExtraObjects }

\* what the chat completion call does: it raises, or its content is no
\* JSON, or JSON that is no object, or a JSON object
Replies ==
    { [kind |-> k, object |-> <<>>] : k \in {"raise", "invalid", "nonmap"} }
    \cup { [kind |-> "object", object |-> o] : o \in JudgeObjects }

\* lengths of the predictions explored: short, and longer than the cap
PredictionLengths == {2, PredictionCap + 1}

JudgeInputs ==
    [question : {<<"q1">>}, prediction : {Text(n) : n \in PredictionLengths},
     configured : {TRUE}, reply : Replies]
    \cup [question : {<<"q1">>}, prediction : {Text(2)},
          configured : {FALSE}, reply : { r \in Replies : r.kind # "object" }]

JudgeInit ==
    /\ judge_in \in JudgeInputs
    /\ evaluation = NoValue
    /\ overall = NoValue
    /\ pc = "evaluate"
    /\ test_cases = <<>>
    /\ calls = <<>>
    /\ i = 1
    /\ results = <<>>
    /\ successful = 0
    /\ failed = 0
    /\ sleeps = 0
    /\ report = <<>>
    /\ main_prediction = NoValue
    /\ total_score = 0
    /\ SearchIdle /\ FlowIdle /\ VerdictIdle /\ AggregateIdle

\* the Judge's result for the current input
Judged ==
    evaluate_metrics(judge_in.question, judge_in.prediction,
                     judge_in.configured, judge_in.reply)

\* evaluate_metrics returns its JSON text
EvaluateReturns ==
    /\ pc = "evaluate"
    /\ ~Judged.raised
    /\ evaluation' = Judged.value
    /\ pc' = "score"
    /\ UNCHANGED <<judge_in, overall>>
    /\ UNCHANGED notJudge

\* evaluate_metrics raises to its caller
EvaluateRaises ==
    /\ pc = "evaluate"
    /\ Judged.raised
    /\ pc' = "evaluate_raised"
    /\ UNCHANGED judgeVars
    /\ UNCHANGED notJudge

\* calculate_score returns the overall score's text
ScoreReturns ==
    /\ pc = "score"
    /\ ~calculate_score(evaluation).raised
    /\ overall' = calculate_score(evaluation).value
    /\ pc' = "scored"
    /\ UNCHANGED <<judge_in, evaluation>>
    /\ UNCHANGED notJudge

\* calculate_score raises to its caller
ScoreRaises ==
    /\ pc = "score"
    /\ calculate_score(evaluation).raised
    /\ pc' = "score_raised"
    /\ UNCHANGED judgeVars
    /\ UNCHANGED notJudge

JudgeNext ==
    \/ EvaluateReturns
    \/ EvaluateRaises
    \/ ScoreReturns
    \/ ScoreRaises

SpecJudge == JudgeInit /\ [][JudgeNext]_vars

----------------------------------------------------------------------------
(* Properties of the Judge and the Scorer *)

\* evaluate_metrics has returned
Evaluated == pc \in {"score", "scored", "score_raised"}

\* the dict of the returned JSON text
Returned == Loads(evaluation)

\* the judge model's reply was a JSON object
ObjectReply == judge_in.reply.kind = "object"

\* the required fields the judge model's object leaves out
MissingFields == Fields \ DOMAIN judge_in.reply.object

\* C5: evaluate_metrics never raises to its caller, whatever fails: the
\* generation service, the parsing of its output, or the construction of
\* the client from missing settings.
C5_JudgeNeverRaises == pc # "evaluate_raised"

\* C6: every result of evaluate_metrics holds all five dimensions; for a
\* JSON object from the judge model, a dimension it omitted is 3.0 and a
\* dimension it supplied keeps the value supplied.
C6_AllFieldsPresent ==
    Evaluated =>
      /\ Fields \subseteq DOMAIN Returned
      /\ ObjectReply =>
            \A f \in Fields :
               Returned[f] = IF f \in DOMAIN judge_in.reply.object
                             THEN judge_in.reply.object[f]
                             ELSE Num(DefaultScore)

\* C6 witness: an object with a supplied 4.33, a supplied null and an
\* omitted dimension was evaluated
C6_Witness ==
    /\ pc = "score"
    /\ ObjectReply
    /\ "accuracy" \in MissingFields
    /\ "relevance" \notin MissingFields
    /\ "fluency" \notin MissingFields
    /\ judge_in.reply.object["relevance"] = Num(433)
    /\ judge_in.reply.object["fluency"] = Null
    /\ Returned["accuracy"] = Num(DefaultScore)

\* C7: when the generation call raises or its output is no key/value map,
\* the result is the default one: every dimension 3.0, a reasoning that is
\* "Evaluation failed: " followed by the cause, and an error key holding
\* the cause.
C7_DefaultOnFailure ==
    (Evaluated /\ ~ObjectReply) =>
      /\ \A f \in Fields : Returned[f] = Num(DefaultScore)
      /\ "error" \in DOMAIN Returned
      /\ "reasoning" \in DOMAIN Returned
      /\ Len(Returned["reasoning"].s) = 2
      /\ Returned["reasoning"].s[1] = "Evaluation failed: "
      /\ Returned["error"].s = <<Returned["reasoning"].s[2]>>
      /\ Returned["error"].s[1] = CASE judge_in.reply.kind = "raise" -> "service error"
                                    [] judge_in.reply.kind = "invalid" -> "JSONDecodeError"
                                    [] OTHER -> "TypeError"

\* C7 witness: the judge's output was not JSON and a result was returned
C7_Witness ==
    /\ pc = "score"
    /\ judge_in.reply.kind = "invalid"
    /\ "error" \in DOMAIN Returned

MeanOfFive ==
    RoundHalfEven(Sum([k \in 1..Len(required_fields) |-> Returned[required_fields[k]].n]),
                  Len(required_fields))

\* C9: for every result evaluate_metrics returns, calculate_score succeeds
\* and returns the mean of the five dimension values rounded to 2 decimals.
C9_ScoreIsMean ==
    /\ pc # "score_raised"
    /\ pc = "scored" => ParseFloat(overall) = MeanOfFive

\* C10: the overall score calculate_score gives for a Judge result is
\* within 0 and 5, whatever values the judge model put in the dimensions.
C10_ScoreInRange ==
    pc = "scored" => (0 <= ParseFloat(overall) /\ ParseFloat(overall) <= 500)

----------------------------------------------------------------------------
(* The judged batch run, main of run_copilot_and_evaluate.py               *)

pass_threshold == 350

\* the copilot flow's services for one item (the search has results)
CopilotOutcomes == { o \in FlowOutcomes : o.search.fail = "none" /\ o.search.docs # <<>> }

\* a judge object giving the five dimensions the values of v, in order
ObjectOf(v) == [f \in Fields |-> Num(v[CHOOSE k \in 1..Len(required_fields) : required_fields[k] = f])]

\* the evaluation flow's services for one item: the judge call raises, the
\* judge scores 5.0, 2.0 or 3.5 overall, or the client's settings are missing
EvaluationOutcomes ==
    { [configured |-> TRUE,  reply |-> [kind |-> "raise", object |-> <<>>]],
      [configured |-> TRUE,  reply |-> [kind |-> "object", object |-> ObjectOf(<<500, 500, 500, 500, 500>>)]],
      [configured |-> TRUE,  reply |-> [kind |-> "object", object |-> ObjectOf(<<200, 200, 200, 200, 200>>)]],
      [configured |-> TRUE,  reply |-> [kind |-> "object", object |-> ObjectOf(<<300, 300, 300, 400, 450>>)]],
      [configured |-> FALSE, reply |-> [kind |-> "raise", object |-> <<>>]] }

\* run_copilot_flow: the flow's answer, or the text of its exception
run_copilot_flow(question, o) ==
    LET result == test_flow(question, o)
    IN  IF result.raised
        THEN <<"Error: ", result.error>>
        ELSE result.value.answer

\* the evaluation flow run by pf.flows.test: evaluate_metrics, then
\* calculate_score on its output; a node's exception fails the run
EvaluationFlow(question, pred, e) ==
    LET metric == evaluate_metrics(<<question>>, pred, e.configured, e.reply)
    IN  IF metric.raised THEN metric
        ELSE LET score == calculate_score(metric.value)
             IN  IF score.raised THEN score
                 ELSE [raised |-> FALSE,
                       value  |-> [evaluation_result |-> metric.value,
                                   overall_score     |-> score.value]]

\* run_evaluation_flow: the parsed outputs of the flow, or the error record
\* with an overall score of 0.0
run_evaluation_flow(question, pred, e) ==
    LET result == EvaluationFlow(question, pred, e)
    IN  IF result.raised
        THEN [evaluation_result |-> [k \in {"error"} |-> Str(<<result.error>>)],
              overall_score     |-> 0]
        ELSE [evaluation_result |-> Loads(result.value.evaluation_result),
              overall_score     |-> ParseFloat(result.value.overall_score)]

MainInit ==
    /\ test_cases \in Datasets(MaxItems)
    /\ calls = <<>>
    /\ i = 1
    /\ results = <<>>
    /\ total_score = 0
    /\ main_prediction = NoValue
    /\ report = <<>>
    /\ pc = "copilot"
    /\ successful = 0
    /\ failed = 0
    /\ sleeps = 0
    /\ judge_in = NoValue
    /\ evaluation = NoValue
    /\ overall = NoValue
    /\ SearchIdle /\ FlowIdle /\ VerdictIdle /\ AggregateIdle

\* step 1 of an item: prediction = run_copilot_flow(question, chat_history)
MainRunCopilot ==
    /\ pc = "copilot"
    /\ i <= Len(test_cases)
    /\ \E o \in CopilotOutcomes :
         /\ main_prediction' = run_copilot_flow(test_cases[i].chat_input, o)
         /\ calls' = Append(calls, [copilot |-> o, judge |-> NoValue])
    /\ pc' = "evaluate"
    /\ UNCHANGED <<test_cases, i, results, total_score, report>>
    /\ UNCHANGED notMain

\* step 2 of an item: the evaluation, the record and the running sum
MainEvaluate ==
    /\ pc = "evaluate"
    /\ \E e \in EvaluationOutcomes :
         LET question == test_cases[i].chat_input
             ground_truth == test_cases[i].truth
             ev == run_evaluation_flow(question, main_prediction, e)
         IN  /\ calls' = [calls EXCEPT ![i].judge = e]
             /\ results' = Append(results,
                   [test_number   |-> i,
                    question      |-> question,
                    ground_truth  |-> ground_truth,
                    prediction    |-> main_prediction,
                    evaluation    |-> ev.evaluation_result,
                    overall_score |-> ev.overall_score,
                    status        |-> IF ev.overall_score > 0 THEN "success" ELSE "failed"])
             /\ total_score' = total_score + ev.overall_score
    /\ i' = i + 1
    /\ pc' = "copilot"
    /\ UNCHANGED <<test_cases, main_prediction, report>>
    /\ UNCHANGED notMain

\* the number of records whose overall score reaches the threshold
Passed(rs) == Cardinality({ k \in 1..Len(rs) : rs[k].overall_score >= pass_threshold })

\* after the loop: the summary statistics and the dump of the report
MainSummary ==
    /\ pc = "copilot"
    /\ i > Len(test_cases)
    /\ LET n == Len(test_cases)
           passed == Passed(results)
       IN  report' = Append(report,
              [total_questions |-> n,
               average_score   |-> IF n > 0 THEN RoundHalfEven(total_score, n) ELSE 0,
               pass_rate       |-> IF n > 0 THEN RoundHalfEven(passed * 1000, n) ELSE 0,
               passed_cases    |-> passed,
               pass_threshold  |-> pass_threshold,
               results         |-> results])
    /\ pc' = "done"
    /\ UNCHANGED <<test_cases, calls, i, results, total_score, main_prediction>>
    /\ UNCHANGED notMain

MainNext ==
    \/ MainRunCopilot
    \/ MainEvaluate
    \/ MainSummary

SpecMain == MainInit /\ [][MainNext]_vars

----------------------------------------------------------------------------
(* Properties of the judged batch run *)

\* the copilot flow raised for the k-th item
QueryFailed(k) == test_flow(test_cases[k].chat_input, calls[k].copilot).raised

\* the evaluation flow raised for the k-th item
JudgingFailed(k) ==
    EvaluationFlow(test_cases[k].chat_input, results[k].prediction, calls[k].judge).raised

\* the items that were queried and judged without a failure
ScoredItems == { k \in 1..Len(results) : ~QueryFailed(k) /\ ~JudgingFailed(k) }

\* the sum of the overall scores of the items of set S
RECURSIVE ScoreSum(_)
ScoreSum(S) ==
    IF S = {} THEN 0
    ELSE LET k == CHOOSE x \in S : TRUE
         IN  results[k].overall_score + ScoreSum(S \ {k})

\* C3: average_score is the mean over the successfully scored items only:
\* an item whose querying or judging failed adds nothing to the sum and is
\* not counted in the divisor.
C3_AverageOverScoredOnly ==
    pc = "done" =>
      report[1].average_score =
         IF ScoredItems = {} THEN 0
         ELSE RoundHalfEven(ScoreSum(ScoredItems), Cardinality(ScoredItems))

\* C4: pass_rate is passed/total*100 over every dataset item, and an item
\* whose querying or judging failed is never counted as passed, whatever
\* the judge returned for it.
C4_FailedNeverPassed ==
    pc = "done" =>
      /\ report[1].total_questions = Len(test_cases)
      /\ report[1].pass_rate =
            IF Len(test_cases) = 0 THEN 0
            ELSE RoundHalfEven(report[1].passed_cases * 1000, Len(test_cases))
      /\ report[1].passed_cases =
            Cardinality({ k \in ScoredItems : results[k].overall_score >= pass_threshold })

----------------------------------------------------------------------------
(* The Scorer on its own: calculate_score on any judgment                  *)

\* the values of a judgment's dimensions: quarters, which binary floats
\* hold exactly, and null
ScoreValues == { Num(100), Num(325), Num(450), Num(500), Null }

\* the judgments: any subset of the five dimensions, with a reasoning
Judgments ==
    { Merge(f, [k \in {"reasoning"} |-> Str(<<"model reasoning">>)]) :
        f \in UNION { [S -> ScoreValues] : S \in SUBSET Fields } }

ScoreInit ==
    /\ evaluation \in { Dumps(d) : d \in Judgments }
    /\ judge_in = NoValue
    /\ overall = NoValue
    /\ pc = "score"
    /\ BatchIdle /\ MainIdle /\ SearchIdle /\ FlowIdle /\ VerdictIdle /\ AggregateIdle

ScoreNext ==
    \/ ScoreReturns
    \/ ScoreRaises

SpecScore == ScoreInit /\ [][ScoreNext]_vars

\* the dimensions present in the judgment given to calculate_score
PresentFields == Fields \cap DOMAIN Loads(evaluation)

\* the sum of the values of the dimensions of set S
RECURSIVE FieldSum(_)
FieldSum(S) ==
    IF S = {} THEN 0
    ELSE LET f == CHOOSE x \in S : TRUE
         IN  Loads(evaluation)[f].n + FieldSum(S \ {f})

\* C11: without any of the five dimensions calculate_score returns 0.0 and
\* does not fail; with some of them it returns their sum divided by the
\* number of dimensions present, rounded to 2 decimals.
C11_DividesByPresent ==
    /\ (pc = "score_raised") => (\E f \in PresentFields : Loads(evaluation)[f].type # "number")
    /\ (pc = "scored") =>
          IF PresentFields = {}
          THEN overall = FloatStr(0)
          ELSE ParseFloat(overall) =
                  RoundHalfEven(FieldSum(PresentFields), Cardinality(PresentFields))

\* C11 witness: a judgment without any dimension was scored 0.0
C11_Witness ==
    /\ pc = "scored"
    /\ PresentFields = {}
    /\ ParseFloat(overall) = 0

----------------------------------------------------------------------------
(* aggregate_results                                                       *)

\* the threshold literal of aggregate_results
aggregate_pass_threshold == 350

\* float(score) of each score of the list
ParseAll(scores) == [k \in 1..Len(scores) |-> ParseFloat(scores[k])]

\* least and greatest number of a non-empty sequence
Min(q) == CHOOSE x \in { q[k] : k \in 1..Len(q) } : \A k \in 1..Len(q) : x <= q[k]
Max(q) == CHOOSE x \in { q[k] : k \in 1..Len(q) } : \A k \in 1..Len(q) : x >= q[k]

\* aggregate_results whose pass test is strict
aggregate_resultsStrictPass(scores) ==
    IF scores = <<>>
    THEN [average_score |-> 0, pass_rate |-> 0, total_cases |-> 0, passed_cases |-> 0]
    ELSE LET float_scores == ParseAll(scores)
             n == Len(float_scores)
             passed_cases ==
                Cardinality({ k \in 1..n : float_scores[k] > aggregate_pass_threshold })
         IN  [average_score  |-> RoundHalfEven(Sum(float_scores), n),
              pass_rate      |-> RoundHalfEven(passed_cases * 10000, n),
              total_cases    |-> n,
              passed_cases   |-> passed_cases,
              min_score      |-> Min(float_scores),
              max_score      |-> Max(float_scores),
              pass_threshold |-> aggregate_pass_threshold]

\* aggregate_results: scores and average in hundredths, pass_rate in
\* hundredths of a percent
aggregate_results(scores) ==
    IF scores = <<>>
    THEN [average_score |-> 0, pass_rate |-> 0, total_cases |-> 0, passed_cases |-> 0]
    ELSE LET float_scores == ParseAll(scores)
             n == Len(float_scores)
             passed_cases ==
                Cardinality({ k \in 1..n : float_scores[k] >= aggregate_pass_threshold })
         IN  [average_score  |-> RoundHalfEven(Sum(float_scores), n),
              pass_rate      |-> RoundHalfEven(passed_cases * 10000, n),
              total_cases    |-> n,
              passed_cases   |-> passed_cases,
              min_score      |-> Min(float_scores),
              max_score      |-> Max(float_scores),
              pass_threshold |-> aggregate_pass_threshold]

----------------------------------------------------------------------------
(* test_evaluation, and the pass verdict of each component                 *)

\* the threshold literal of test_evaluation
test_pass_threshold == 350

\* Python values with their type
PyStr(t) == [py |-> "str", v |-> t]
PyFloat(n) == [py |-> "float", v |-> n]

\* x.items(): only a dict has it
Items(x) ==
    IF x.py = "dict"
    THEN [raised |-> FALSE, value |-> x.v]
    ELSE [raised |-> TRUE, error |-> "AttributeError"]

\* a >= b: defined between two floats, a TypeError between a str and a float
GreaterEqual(a, b) ==
    IF a.py = "float" /\ b.py = "float"
    THEN [raised |-> FALSE, value |-> a.v >= b.v]
    ELSE [raised |-> TRUE, error |-> "TypeError"]

\* test_evaluation from its step 1 on: evaluation_result is the str that
\* evaluate_metrics returned and overall_score the str of calculate_score
test_evaluation(evaluation_result, overall_score) ==
    LET listed == Items(PyStr(evaluation_result))
        passes == GreaterEqual(PyStr(overall_score), PyFloat(test_pass_threshold))
    IN  IF listed.raised THEN listed
        ELSE IF passes.raised THEN passes
        ELSE [raised |-> FALSE, value |-> IF passes.value THEN "pass" ELSE "fail"]

\* the overall scores a verdict is derived from: quarters, and the
\* neighbours of the threshold
VerdictScores == { n \in 0..500 : n % 25 = 0 } \cup {349, 351}

Components == {"aggregate", "main", "test"}

VerdictInit ==
    /\ overall \in { FloatStr(n) : n \in VerdictScores }
    /\ evaluation = Dumps(default_result(<<"q1">>, Text(2), "service error"))
    /\ judge_in = NoValue
    /\ verdicts = [c \in Components |-> "unset"]
    /\ pc = "verdict"
    /\ BatchIdle /\ MainIdle /\ SearchIdle /\ FlowIdle /\ AggregateIdle

\* aggregate_results on the one score: the score is among passed_cases
VerdictAggregate ==
    /\ pc = "verdict"
    /\ verdicts["aggregate"] = "unset"
    /\ verdicts' = [verdicts EXCEPT !["aggregate"] =
          IF aggregate_results(<<overall>>).passed_cases = 1 THEN "pass" ELSE "fail"]
    /\ UNCHANGED <<judgeVars, pc>>
    /\ UNCHANGED notVerdict

\* main on the one record: the record is among passed
VerdictMain ==
    /\ pc = "verdict"
    /\ verdicts["main"] = "unset"
    /\ verdicts' = [verdicts EXCEPT !["main"] =
          IF Passed(<<[overall_score |-> ParseFloat(overall)]>>) = 1 THEN "pass" ELSE "fail"]
    /\ UNCHANGED <<judgeVars, pc>>
    /\ UNCHANGED notVerdict

\* test_evaluation on the outputs of the two tools
VerdictTest ==
    /\ pc = "verdict"
    /\ verdicts["test"] = "unset"
    /\ verdicts' = [verdicts EXCEPT !["test"] =
          LET status == test_evaluation(evaluation, overall)
          IN  IF status.raised THEN "raised" ELSE status.value]
    /\ UNCHANGED <<judgeVars, pc>>
    /\ UNCHANGED notVerdict

VerdictNext ==
    \/ VerdictAggregate
    \/ VerdictMain
    \/ VerdictTest

SpecVerdict == VerdictInit /\ [][VerdictNext]_vars

\* C12: every component that derives a pass verdict yields pass iff the
\* overall score is at least 3.5, so the components agree and 3.5 passes.
C12_VerdictsAgree ==
    pc = "verdict" =>
      \A c \in Components :
         verdicts[c] # "unset" =>
            verdicts[c] = IF ParseFloat(overall) >= 350 THEN "pass" ELSE "fail"

-----------------------------------------------------------------------------
(* search_products alone: one query, one index and one behaviour of the    *)
(* services, and the tool called on them MaxCalls times in a row.          *)

\* the most documents the index ranks for the query, and the calls made
MaxHits == 4
MaxCalls == 2

\* the documents an index can hold
Documents == {DocFull, DocBare, DocUntitled, DocNoContent}

\* the step of the tool that fails
FailingSteps == {"none", "config", "embedding", "search"}

SearchInputs ==
    [query : {"q1"},
     fail  : FailingSteps,
     docs  : UNION { [1..k -> Documents] : k \in 0..MaxHits }]

SearchInit ==
    /\ search_in \in SearchInputs
    /\ contexts = <<>>
    /\ pc = "search"
    /\ BatchIdle /\ JudgeIdle /\ MainIdle /\ FlowIdle /\ VerdictIdle /\ AggregateIdle

\* one call of search_products(query)
SearchCall ==
    /\ pc = "search"
    /\ Len(contexts) < MaxCalls
    /\ LET context == search_products(search_in.query, search_in)
       IN  IF context.raised
           THEN pc' = "search_raised" /\ UNCHANGED contexts
           ELSE pc' = "search" /\ contexts' = Append(contexts, context.value)
    /\ UNCHANGED search_in
    /\ UNCHANGED notSearch

\* the caller stops calling
SearchStop ==
    /\ pc = "search"
    /\ Len(contexts) = MaxCalls
    /\ pc' = "searched"
    /\ UNCHANGED searchVars
    /\ UNCHANGED notSearch

SearchNext ==
    \/ SearchCall
    \/ SearchStop

SpecSearch == SearchInit /\ [][SearchNext]_vars

\* the documents the service hands to the formatting loop
Served(s) == SubSeq(s.docs, 1, IF Len(s.docs) < TopK THEN Len(s.docs) ELSE TopK)

\* the formatting loop meets a content that is None
FormatFails(s) == \E k \in 1..Len(Served(s)) : Served(s)[k].content.k = "none"

\* the call fails in one of its four steps
SearchFails(s) == s.fail # "none" \/ FormatFails(s)

\* the text is an error text
IsErrorText(ctx) == Len(ctx) = 2 /\ ctx[1] = "Error searching products: "

\* C13: search_products never raises: a failure of the configuration, of
\* the embedding call, of the search call or of the formatting is returned
\* as the text "Error searching products: <cause>".
C13_SearchNeverRaises ==
    /\ pc # "search_raised"
    /\ \A n \in 1..Len(contexts) :
          SearchFails(search_in) =>
             /\ IsErrorText(contexts[n])
             /\ contexts[n][2] =
                   CASE search_in.fail = "config"    -> "invalid credential"
                     [] search_in.fail = "embedding" -> "embedding unavailable"
                     [] search_in.fail = "search"    -> "search unavailable"
                     [] OTHER                        -> "TypeError"

C13_Witness ==
    /\ contexts # <<>>
    /\ search_in.fail = "config"

\* C14: a search that returns no result gives exactly the sentinel text,
\* and whatever the outcome the context is not the empty text.
C14_NeverEmpty ==
    \A n \in 1..Len(contexts) :
       /\ contexts[n] # <<>>
       /\ \A p \in 1..Len(contexts[n]) : contexts[n][p] # ""
       /\ (search_in.fail = "none" /\ search_in.docs = <<>>) =>
             contexts[n] = <<"No relevant product information found.">>

C14_Witness ==
    /\ contexts # <<>>
    /\ search_in.fail = "none"
    /\ search_in.docs = <<>>

\* the positions of the section headers of a context, and the rank of one
Headers(ctx) == { p \in 1..Len(ctx) : ctx[p] = "## Product " }
Rank(ctx, p) == Cardinality({ q \in Headers(ctx) : q <= p })

\* the characters of document content in a context
ContentChars(ctx) == Cardinality({ p \in 1..Len(ctx) : ctx[p] = "c" })

\* the length of the content of a document, None and missing counted as 0
ContentLen(doc) == Len(doc.content.t)

RECURSIVE CappedTotal(_)
CappedTotal(docs) ==
    IF docs = <<>> THEN 0
    ELSE (IF ContentLen(Head(docs)) < ContentCap THEN ContentLen(Head(docs)) ELSE ContentCap)
         + CappedTotal(Tail(docs))

\* the title a section shows for a document
ShownTitle(doc) ==
    CASE doc.title.k = "missing" -> "Unknown Product"
      [] doc.title.k = "none"    -> "None"
      [] OTHER                   -> doc.title.t[1]

\* C15: the context holds at most 3 product sections, numbered 1, 2, 3 in
\* the order of the ranking, each with at most 800 characters of content.
C15_AtMostThreeSections ==
    \A n \in 1..Len(contexts) :
       LET ctx == contexts[n]
           docs == search_in.docs
       IN  /\ Cardinality(Headers(ctx)) <= 3
           /\ ~SearchFails(search_in) =>
                 /\ Cardinality(Headers(ctx)) = (IF Len(docs) < 3 THEN Len(docs) ELSE 3)
                 /\ \A p \in Headers(ctx) :
                       /\ ctx[p + 1] = Ordinal(Rank(ctx, p))
                       /\ ctx[p + 3] = ShownTitle(docs[Rank(ctx, p)])
                 /\ ContentChars(ctx) = CappedTotal(SubSeq(docs, 1, Cardinality(Headers(ctx))))
                 /\ ContentChars(ctx) <= 800 * Cardinality(Headers(ctx))

C15_Witness ==
    /\ contexts # <<>>
    /\ ~SearchFails(search_in)
    /\ Len(search_in.docs) > 3
    /\ search_in.docs[2] = DocFull

\* the titles of a context, in the order of its sections
TitlesOf(ctx) ==
    [k \in 1..Cardinality(Headers(ctx)) |->
        ctx[(CHOOSE p \in Headers(ctx) : Rank(ctx, p) = k) + 3]]

-----------------------------------------------------------------------------
(* The query pipeline called in a row, as run_interactive_test calls it:   *)
(* each question is one call of test_flow on the history so far; trace     *)
(* logs every call of the Retriever and of the generation model.           *)

\* the most questions and the most empty lines of a session, and the
\* messages the history keeps
MaxQuestions == 3
MaxBlanks == 1
HistoryCap == 4

\* a loop that never cuts the history
LastMessagesUncut(h) == h

Questions == {"q1", "q2"}

\* one logged call of a service
SearchEvent(call, query, context) ==
    [call |-> call, op |-> "search", query |-> query, messages |-> <<>>,
     out |-> context, raised |-> FALSE]
GenerateEvent(call, messages, answer) ==
    [call |-> call, op |-> "generate", query |-> "", messages |-> messages,
     out |-> IF answer.raised THEN <<>> ELSE answer.value, raised |-> answer.raised]

\* chat_history[-4:] when the history holds more than 4 messages
LastMessages(h) == IF Len(h) > HistoryCap THEN SubSeq(h, Len(h) - HistoryCap + 1, Len(h)) ELSE h

\* a caller passes no history (None) or the history of the session, which
\* starts empty; both add no message
FlowInit ==
    /\ flow_in \in [call : {1}, question : Questions, given : BOOLEAN,
                    chat_history : {<<>>}, context : {<<>>}, blanks : {0}]
    /\ trace = <<>>
    /\ flow_out = <<>>
    /\ pc = "flow_search"
    /\ BatchIdle /\ JudgeIdle /\ MainIdle /\ SearchIdle /\ VerdictIdle /\ AggregateIdle

\* a pipeline that keeps the context of its first call
FlowSearchCached ==
    /\ pc = "flow_search"
    /\ \E s \in SearchOutcomes :
          LET context == search_products(flow_in.question, s)
          IN  IF flow_out # <<>>
              THEN /\ flow_in' = [flow_in EXCEPT !.context = flow_out[1].context]
                   /\ UNCHANGED trace
              ELSE /\ flow_in' = [flow_in EXCEPT !.context = context.value]
                   /\ trace' = Append(trace,
                                 SearchEvent(flow_in.call, flow_in.question, context.value))
    /\ pc' = "flow_generate"
    /\ UNCHANGED flow_out
    /\ UNCHANGED <<notFlow>>

\* a pipeline that gives up when the Retriever reports a failure
FlowSearchAborts ==
    /\ pc = "flow_search"
    /\ \E s \in SearchOutcomes :
          LET context == search_products(flow_in.question, s)
          IN  /\ flow_in' = [flow_in EXCEPT !.context = context.value]
              /\ trace' = Append(trace,
                            SearchEvent(flow_in.call, flow_in.question, context.value))
              /\ pc' = IF context.value[1] = "Error searching products: "
                       THEN "flow_raised" ELSE "flow_generate"
    /\ UNCHANGED flow_out
    /\ UNCHANGED <<notFlow>>

\* test_flow, step 1: context = search_products(question)
FlowSearch ==
    /\ pc = "flow_search"
    /\ \E s \in SearchOutcomes :
          LET context == search_products(flow_in.question, s)
          IN  IF context.raised
              THEN pc' = "flow_raised" /\ UNCHANGED <<flow_in, trace>>
              ELSE /\ flow_in' = [flow_in EXCEPT !.context = context.value]
                   /\ trace' = Append(trace,
                                 SearchEvent(flow_in.call, flow_in.question, context.value))
                   /\ pc' = "flow_generate"
    /\ UNCHANGED flow_out
    /\ UNCHANGED <<notFlow>>

\* test_flow, step 2: the generation answers and the record is returned
FlowGenerateReturns ==
    /\ pc = "flow_generate"
    /\ LET answer == generate_response(flow_in.question, flow_in.context, "answer")
       IN  /\ trace' = Append(trace,
                 GenerateEvent(flow_in.call,
                    Messages(flow_in.question, flow_in.context, flow_in.chat_history), answer))
           /\ flow_out' = Append(flow_out,
                 [question |-> flow_in.question,
                  context  |-> flow_in.context,
                  answer   |-> answer.value])
    /\ pc' = "flow_returned"
    /\ UNCHANGED flow_in
    /\ UNCHANGED <<notFlow>>

\* a pipeline that answers a failed generation with a placeholder
FlowGenerateRaisesPlaceholder ==
    /\ pc = "flow_generate"
    /\ LET answer == generate_response(flow_in.question, flow_in.context, "raise")
       IN  /\ trace' = Append(trace,
                 GenerateEvent(flow_in.call,
                    Messages(flow_in.question, flow_in.context, flow_in.chat_history), answer))
           /\ flow_out' = Append(flow_out,
                 [question |-> flow_in.question,
                  context  |-> flow_in.context,
                  answer   |-> <<"Error: ", answer.error>>])
    /\ pc' = "flow_returned"
    /\ UNCHANGED flow_in
    /\ UNCHANGED <<notFlow>>

\* test_flow, step 2: the generation raises; neither generate_response nor
\* test_flow nor run_interactive_test catches it
FlowGenerateRaises ==
    /\ pc = "flow_generate"
    /\ LET answer == generate_response(flow_in.question, flow_in.context, "raise")
       IN  trace' = Append(trace,
              GenerateEvent(flow_in.call,
                 Messages(flow_in.question, flow_in.context, flow_in.chat_history), answer))
    /\ pc' = "flow_raised"
    /\ UNCHANGED <<flow_in, flow_out>>
    /\ UNCHANGED <<notFlow>>

\* run_interactive_test: the exchange joins the history, and the history
\* keeps its last 4 messages
FlowUpdateHistory ==
    /\ pc = "flow_returned"
    /\ flow_in' =
          [flow_in EXCEPT
             !.given = TRUE,
             !.chat_history =
                LastMessages(flow_in.chat_history
                   \o <<Message("user", <<flow_in.question>>),
                        Message("assistant", flow_out[Len(flow_out)].answer)>>)]
    /\ pc' = "flow_input"
    /\ UNCHANGED <<trace, flow_out>>
    /\ UNCHANGED <<notFlow>>

\* run_interactive_test: a question is read and test_flow is called on it
FlowReadQuestion ==
    /\ pc = "flow_input"
    /\ flow_in.call < MaxQuestions
    /\ \E q \in Questions :
          flow_in' = [flow_in EXCEPT !.call = flow_in.call + 1,
                                     !.question = q,
                                     !.context = <<>>]
    /\ pc' = "flow_search"
    /\ UNCHANGED <<trace, flow_out>>
    /\ UNCHANGED <<notFlow>>

\* run_interactive_test: an empty line is read and the loop continues
FlowReadEmpty ==
    /\ pc = "flow_input"
    /\ flow_in.blanks < MaxBlanks
    /\ flow_in' = [flow_in EXCEPT !.blanks = flow_in.blanks + 1]
    /\ UNCHANGED <<trace, flow_out, pc>>
    /\ UNCHANGED <<notFlow>>

\* run_interactive_test: the user quits
FlowQuit ==
    /\ pc = "flow_input"
    /\ pc' = "flow_done"
    /\ UNCHANGED flowVars
    /\ UNCHANGED <<notFlow>>

FlowNext ==
    \/ FlowSearch
    \/ FlowGenerateReturns
    \/ FlowGenerateRaises
    \/ FlowUpdateHistory
    \/ FlowReadQuestion
    \/ FlowReadEmpty
    \/ FlowQuit

SpecFlow == FlowInit /\ [][FlowNext]_vars

\* the logged calls of the generation model
Generations == { n \in 1..Len(trace) : trace[n].op = "generate" }

\* C16: the messages sent to the generation model are one system message
\* first, then every message of the history in its order, then the
\* question as the last message.
C16_MessageOrder ==
    \A n \in Generations :
       LET messages == trace[n].messages
           history  == SubSeq(messages, 2, Len(messages) - 1)
       IN  /\ Len(messages) >= 2
           /\ messages[1].role = "system"
           /\ Cardinality({ m \in 1..Len(messages) : messages[m].role = "system" }) = 1
           /\ messages[Len(messages)].role = "user"
           /\ \E q \in Questions : messages[Len(messages)].content = <<q>>
           /\ pc \in {"flow_returned", "flow_raised"} /\ n = Len(trace) =>
                 /\ history = flow_in.chat_history
                 /\ messages[Len(messages)].content = <<flow_in.question>>

C16_Witness ==
    /\ pc = "flow_returned"
    /\ Len(flow_in.chat_history) = 4
    /\ flow_in.chat_history[1] # flow_in.chat_history[3]
    /\ flow_in.chat_history[1].content # <<flow_in.question>>

\* C17: an error of the generation model is not swallowed: the call of the
\* pipeline ends with the exception and returns no record, neither an
\* answer nor a placeholder.
C17_GenerationErrorPropagates ==
    \A n \in Generations :
       trace[n].raised =>
          /\ pc = "flow_raised"
          /\ n = Len(trace)
          /\ Len(flow_out) = trace[n].call - 1

C17_Witness ==
    /\ pc = "flow_raised"
    /\ trace[Len(trace)].op = "generate"
    /\ trace[Len(trace)].raised
    /\ flow_in.call = 2

\* the logged service calls of the pipeline's call number c
EventsOf(c) ==
    LET OfCall(e) == e.call = c
    IN  SelectSeq(trace, OfCall)

\* C18: each call of test_flow calls the Retriever once and then the
\* Responder once, and returns {question, context, answer} where context
\* is the text this call's Retriever returned and this call's Responder
\* was given.
C18_OneSearchThenOneGeneration ==
    /\ \A c \in 1..MaxQuestions : Len(EventsOf(c)) <= 2
    /\ \A c \in 1..Len(flow_out) :
          LET events == EventsOf(c)
          IN  /\ Len(events) = 2
              /\ events[1].op = "search"
              /\ events[2].op = "generate"
              /\ DOMAIN flow_out[c] = {"question", "context", "answer"}
              /\ events[1].query = flow_out[c].question
              /\ flow_out[c].context = events[1].out
              /\ events[2].messages[1] = SystemMessage(events[1].out)
              /\ flow_out[c].answer = events[2].out

C18_Witness ==
    /\ Len(flow_out) >= 2
    /\ flow_out[1].context # flow_out[2].context

-----------------------------------------------------------------------------
(* Termination of the batch run *)

\* C20: once the dataset is loaded, run_batch_evaluation ends without an
\* exception for every dataset, the empty one included, and every pattern
\* of item failures, and has written the summary exactly once, after the
\* last item has its outcome.
C20_AlwaysWritesOneReport ==
    /\ pc # "raised"
    /\ Len(report) <= 1
    /\ Len(report) = 1 => Len(results) = Len(test_cases)
    /\ pc = "done" => Len(report) = 1

-----------------------------------------------------------------------------
(* The records of the batch report *)

\* C21: the records of the report are in dataset order: the k-th has
\* test_number k and the question and expected answer of the k-th row,
\* whether the item succeeded or failed, and the report holds exactly
\* total_questions records.
C21_RecordsInDatasetOrder ==
    /\ \A k \in 1..Len(results) :
          /\ results[k].test_number = k
          /\ results[k].question = test_cases[k].chat_input
          /\ results[k].expected_answer = test_cases[k].truth
    /\ \A r \in 1..Len(report) :
          /\ report[r].results = results
          /\ Len(report[r].results) = report[r].total_questions
          /\ report[r].total_questions = Len(test_cases)

C21_Witness ==
    /\ pc = "done"
    /\ Len(report) = 1
    /\ Len(test_cases) = 3
    /\ test_cases[1] # test_cases[2]
    /\ results[2].status = "error"
    /\ results[3].status = "success"

\* C22: every item record has status success or error; an item whose
\* querying or judging raised has status error, and a success carries what
\* the query pipeline returned.  Stated on the records of the judged run.
C22_StatusSuccessOrError ==
    \A k \in 1..Len(results) :
       /\ results[k].status \in {"success", "error"}
       /\ (QueryFailed(k) \/ JudgingFailed(k)) => results[k].status = "error"
       /\ results[k].status = "success" =>
             /\ ~QueryFailed(k)
             /\ results[k].prediction =
                   test_flow(test_cases[k].chat_input, calls[k].copilot).value.answer

-----------------------------------------------------------------------------
(* The pause between the items of the batch run *)

\* C23 as stated: after every item, on the success path and on the error
\* path alike, the run pauses before it proceeds to what follows the item.
C23_PauseAfterEveryItem ==
    /\ pc = "next" => sleeps = Len(results)
    /\ LoopEnded => sleeps = Len(results)

\* C23, amended: after every item but the last, on the success path and on
\* the error path alike, the run pauses once before the next item begins;
\* after the last item it goes on to the summary without a pause.
C23_PauseBetweenItems ==
    /\ pc = "pause" => i < Len(test_cases) /\ Len(results) = i /\ sleeps = i - 1
    /\ pc = "next" => sleeps = (IF i < Len(test_cases) THEN i ELSE i - 1)
    /\ pc = "item" /\ i <= Len(test_cases) => sleeps = i - 1 /\ Len(results) = i - 1
    /\ LoopEnded /\ Len(test_cases) > 0 => sleeps = Len(test_cases) - 1
    /\ Len(test_cases) = 0 => sleeps = 0

C23_Witness ==
    /\ pc = "done"
    /\ Len(test_cases) = 3
    /\ sleeps = 2
    /\ results[1].status = "error"
    /\ results[2].status = "success"

-----------------------------------------------------------------------------
(* The states of an item of the judged run *)

\* C24: the Judge is invoked for an item only after the query pipeline
\* returned an answer for it; an item whose querying failed goes to error
\* without being judged or scored.
C24_FailedQueryNotJudged ==
    \A k \in 1..Len(calls) :
       /\ calls[k].judge # NoValue => k <= Len(results) /\ ~QueryFailed(k)
       /\ QueryFailed(k) /\ k <= Len(results) =>
             /\ calls[k].judge = NoValue
             /\ results[k].overall_score = 0

-----------------------------------------------------------------------------
(* The results sequence of the batch run *)

\* C25: the results sequence is append-only: a step adds at most one
\* record at the end and leaves the records already present as they are,
\* and item i's record is in the sequence before item i+1 begins.
C25_ResultsAppendOnly ==
    [][ /\ Len(results') \in {Len(results), Len(results) + 1}
        /\ SubSeq(results', 1, Len(results)) = results
        /\ i' # i => i' = i + 1 /\ Len(results) = i
      ]_vars

C25_Witness ==
    /\ pc = "item"
    /\ i = 3
    /\ Len(results) = 2
    /\ results[1].status = "error"
    /\ results[2].status = "success"
    /\ results[1].question # results[2].question

-----------------------------------------------------------------------------
(* aggregate_results alone: one list of scores, as the texts that          *)
(* calculate_score returns, and the tool called on it.  The scores are     *)
(* multiples of 0.25, which binary floats hold exactly, so that the mean   *)
(* and its rounding are those of CPython.                                  *)

\* the longest list of scores
MaxScores == 3

AggregateScores == {0, 100, 325, 350, 375, 500}

ScoreLists == UNION { [1..k -> { FloatStr(n) : n \in AggregateScores }] : k \in 0..MaxScores }

AggregateInit ==
    /\ agg_in \in ScoreLists
    /\ agg_out = NoValue
    /\ pc = "aggregate"
    /\ BatchIdle /\ JudgeIdle /\ MainIdle /\ SearchIdle /\ FlowIdle /\ VerdictIdle

\* one call of aggregate_results(scores)
AggregateReturns ==
    /\ pc = "aggregate"
    /\ agg_out' = aggregate_results(agg_in)
    /\ pc' = "aggregated"
    /\ UNCHANGED agg_in
    /\ UNCHANGED notAggregate

AggregateNext == AggregateReturns

SpecAggregate == AggregateInit /\ [][AggregateNext]_vars

\* the scores of the list as numbers, and those that reach 3.5
Given == ParseAll(agg_in)
Reaching == { k \in 1..Len(agg_in) : Given[k] >= 350 }

\* what C26 says of every field but pass_rate
AggregateFields ==
    IF agg_in = <<>>
    THEN agg_out = [average_score |-> 0, pass_rate |-> 0, total_cases |-> 0, passed_cases |-> 0]
    ELSE /\ agg_out.total_cases = Len(agg_in)
         /\ agg_out.passed_cases = Cardinality(Reaching)
         /\ 2 * Len(agg_in) * agg_out.average_score - Len(agg_in) <= 2 * Sum(Given)
         /\ 2 * Sum(Given) <= 2 * Len(agg_in) * agg_out.average_score + Len(agg_in)
         /\ \A k \in 1..Len(agg_in) : agg_out.min_score <= Given[k] /\ Given[k] <= agg_out.max_score
         /\ \E k \in 1..Len(agg_in) : agg_out.min_score = Given[k]
         /\ \E k \in 1..Len(agg_in) : agg_out.max_score = Given[k]
         /\ agg_out.min_score <= agg_out.average_score
         /\ agg_out.average_score <= agg_out.max_score
         /\ 0 <= agg_out.pass_rate /\ agg_out.pass_rate <= 10000

\* C26 as stated: pass_rate is exactly passed_cases/total_cases*100
C26_AggregateExact ==
    pc = "aggregated" =>
       /\ AggregateFields
       /\ agg_in # <<>> =>
             agg_out.pass_rate * agg_out.total_cases = agg_out.passed_cases * 10000

\* C26, amended: for a non-empty list aggregate_results returns
\* total_cases = number of scores, passed_cases = number of scores >= 3.5,
\* pass_rate = passed_cases/total_cases*100 rounded to 2 decimals,
\* average_score = mean rounded to 2 decimals and min_score/max_score =
\* least/greatest score, hence min <= average <= max and 0 <= pass_rate
\* <= 100; for the empty list it returns the four zero fields.
C26_AggregateRounded ==
    pc = "aggregated" =>
       /\ AggregateFields
       /\ agg_in # <<>> =>
             /\ agg_out.pass_rate = RoundHalfEven(Cardinality(Reaching) * 10000, Len(agg_in))
             /\ 2 * agg_out.pass_rate * Len(agg_in) - 20000 * Cardinality(Reaching)
                   \in (0 - Len(agg_in))..Len(agg_in)

C26_Witness ==
    /\ pc = "aggregated"
    /\ Len(agg_in) = 3
    /\ agg_out.passed_cases = 1
    /\ agg_out.min_score < agg_out.average_score
    /\ \E k \in 1..3 : Given[k] = 350

-----------------------------------------------------------------------------
(* The history of the interactive loop *)

\* the messages of the exchanges that test_flow returned, in order
Transcript ==
    [m \in 1..(2 * Len(flow_out)) |->
        IF m % 2 = 1
        THEN Message("user", <<flow_out[(m + 1) \div 2].question>>)
        ELSE Message("assistant", flow_out[m \div 2].answer)]

\* the transcript that the history has taken in: at flow_returned the last
\* exchange has not joined it yet
Recorded ==
    IF pc = "flow_returned" THEN SubSeq(Transcript, 1, Len(Transcript) - 2) ELSE Transcript

\* the history is at most 4 messages, the most recent ones of the
\* exchanges so far, in their order, user and assistant in turn
HistoryIsRecentTail ==
    LET h == flow_in.chat_history
        first == IF Len(Recorded) > 4 THEN Len(Recorded) - 3 ELSE 1
    IN  /\ Len(h) <= 4
        /\ h = SubSeq(Recorded, first, Len(Recorded))
        /\ \A m \in 1..Len(h) : h[m].role = (IF m % 2 = 1 THEN "user" ELSE "assistant")
        /\ \A n \in Generations : Len(trace[n].messages) <= 4 + 2

\* C27: in the interactive loop the history holds at most 4 messages, the
\* most recent user/assistant messages in chronological alternating order,
\* an empty input line leaves it unchanged, and the history passed to each
\* test_flow call never exceeds 4 messages.
C27_HistoryCapped ==
    /\ []HistoryIsRecentTail
    /\ [][flow_in'.blanks # flow_in.blanks =>
             /\ flow_in'.chat_history = flow_in.chat_history
             /\ flow_out' = flow_out
             /\ pc' = pc]_vars

C27_Witness ==
    /\ pc = "flow_input"
    /\ Len(flow_out) = 3
    /\ Len(flow_in.chat_history) = 4
    /\ flow_in.blanks = 1
    /\ flow_out[1].question # flow_out[2].question

-----------------------------------------------------------------------------
(* The query pipeline when the Retriever fails *)

\* the logged searches that returned an error text
FailedSearches == { n \in 1..Len(trace) : trace[n].op = "search" /\ IsErrorText(trace[n].out) }

\* C28: when the Retriever fails the query is not aborted: test_flow goes
\* on to call the Responder with the error text as context, and the
\* context of the returned record is that error text.
C28_RetrieverFailureDegrades ==
    \A n \in FailedSearches :
       /\ n = Len(trace) => pc = "flow_generate" /\ flow_in.context = trace[n].out
       /\ n < Len(trace) =>
             /\ trace[n + 1].op = "generate"
             /\ trace[n + 1].call = trace[n].call
             /\ trace[n + 1].messages[1] = SystemMessage(trace[n].out)
       /\ trace[n].call <= Len(flow_out) => flow_out[trace[n].call].context = trace[n].out

C28_Witness ==
    /\ pc = "flow_returned"
    /\ Len(flow_out) = 2
    /\ IsErrorText(flow_out[2].context)
    /\ ~IsErrorText(flow_out[1].context)

-----------------------------------------------------------------------------
(* The three outcomes of search_products *)

\* the outcome of a call, from what the services did
Outcome(s) ==
    IF SearchFails(s) THEN "failure"
    ELSE IF s.docs = <<>> THEN "empty"
    ELSE "results"

\* the outcome read from the returned text alone
TextForm(ctx) ==
    IF Len(ctx) >= 3 /\ SubSeq(ctx, 1, 3) = <<"## Product ", "1", ": ">> THEN "results"
    ELSE IF ctx = <<"No relevant product information found.">> THEN "empty"
    ELSE IF ctx # <<>> /\ ctx[1] = "Error searching products: " THEN "failure"
    ELSE "other"

\* C29: the three outcomes of search_products can be told apart from the
\* returned text alone: results start with "## Product 1:", no result is
\* exactly the sentinel, a failure starts with "Error searching products:".
C29_OutcomesDistinguishable ==
    \A n \in 1..Len(contexts) : TextForm(contexts[n]) = Outcome(search_in)

C29_Witness ==
    /\ contexts # <<>>
    /\ search_in.fail = "none"
    /\ search_in.docs # <<>>
    /\ FormatFails(search_in)

-----------------------------------------------------------------------------
(* A defaulted judgment and the pass verdict *)

\* evaluate_metrics returned the result of its except branch
Defaulted ==
    /\ pc \in {"score", "scored", "score_raised"}
    /\ judge_in.configured
    /\ judge_in.reply.kind \in {"raise", "invalid", "nonmap"}

\* C30: a judgment defaulted because the judge call or the parsing failed
\* never yields a pass: its five fields are 3.0, calculate_score gives
\* 3.0, which is below 3.5, so aggregate_results and main count the item
\* in the total and not among the passed.
C30_DefaultedNeverPasses ==
    Defaulted =>
       /\ \A f \in Fields : Loads(evaluation)[f] = Num(300)
       /\ pc # "score_raised"
       /\ pc = "scored" =>
             /\ overall = FloatStr(300)
             /\ ParseFloat(overall) < 350
             /\ aggregate_results(<<overall>>).total_cases = 1
             /\ aggregate_results(<<overall>>).passed_cases = 0
             /\ Passed(<<[overall_score |-> ParseFloat(overall)]>>) = 0

C30_Witness ==
    /\ Defaulted
    /\ pc = "scored"
    /\ judge_in.reply.kind = "invalid"

====
